---- MODULE Spec2Model ----
(***************************************************************************)
(* test_kind: classification of annotated tests (unit / integration /      *)
(* other-with-resources) and the run / skip / ignore decision.             *)
(*                                                                         *)
(* Strings are sequences of one-character strings, so that splitting,      *)
(* trimming, prefix stripping and number / date parsing are computed the   *)
(* way the code computes them.  u32 values are kept as two 16-bit limbs    *)
(* <<hi, lo>> (value hi * 2^16 + lo) because they exceed the model         *)
(* checker's integer range; dates are day numbers since 1970-01-01.        *)
(***************************************************************************)
EXTENDS Integers, Sequences, FiniteSets, TLC

(***************************************************************************)
(* Characters and the std string operations the code calls.                *)
(***************************************************************************)
UpperChars == <<"A","B","C","D","E","I","N","P","T","U">>
LowerChars == <<"a","b","c","d","e","i","n","p","t","u">>
DigitChars == <<"0","1","2","3","4","5","6","7","8","9">>

IsSpace(c) == c = " "
IsDigit(c) == \E i \in 1..10 : DigitChars[i] = c
DigitVal(c) == (CHOOSE i \in 1..10 : DigitChars[i] = c) - 1

\* u8::to_ascii_lowercase
ToAsciiLowercase(c) ==
    IF \E i \in 1..Len(UpperChars) : UpperChars[i] = c
    THEN LowerChars[CHOOSE i \in 1..Len(UpperChars) : UpperChars[i] = c]
    ELSE c

\* str::eq_ignore_ascii_case
EqIgnoreAsciiCase(a, b) ==
    /\ Len(a) = Len(b)
    /\ \A i \in 1..Len(a) : ToAsciiLowercase(a[i]) = ToAsciiLowercase(b[i])

Drop(s, n) == SubSeq(s, n + 1, Len(s))

\* str::trim_start / str::trim
RECURSIVE TrimStart(_)
TrimStart(s) == IF s # <<>> /\ IsSpace(s[1]) THEN TrimStart(Tail(s)) ELSE s
RECURSIVE TrimEnd(_)
TrimEnd(s) ==
    IF s # <<>> /\ IsSpace(s[Len(s)]) THEN TrimEnd(SubSeq(s, 1, Len(s) - 1)) ELSE s
Trim(s) == TrimEnd(TrimStart(s))

\* str::strip_prefix
StartsWith(s, p) == Len(s) >= Len(p) /\ SubSeq(s, 1, Len(p)) = p
StripPrefix(s, p) ==
    IF StartsWith(s, p) THEN [some |-> TRUE, rest |-> Drop(s, Len(p))]
    ELSE [some |-> FALSE]

HasChar(s, c) == \E i \in 1..Len(s) : s[i] = c
FirstIndex(s, c) ==
    CHOOSE i \in 1..Len(s) : s[i] = c /\ \A j \in 1..(i - 1) : s[j] # c

\* str::split(',') collected: every separator cuts, "" gives one empty item
RECURSIVE Split(_, _)
Split(s, c) ==
    IF HasChar(s, c)
    THEN <<SubSeq(s, 1, FirstIndex(s, c) - 1)>> \o Split(Drop(s, FirstIndex(s, c)), c)
    ELSE <<s>>

\* str::splitn(2, ','): only the first separator cuts
SplitN2(s, c) ==
    IF HasChar(s, c)
    THEN <<SubSeq(s, 1, FirstIndex(s, c) - 1), Drop(s, FirstIndex(s, c))>>
    ELSE <<s>>

\* str::replace(' ', "")
RECURSIVE RemoveSpaces(_)
RemoveSpaces(s) ==
    IF s = <<>> THEN <<>>
    ELSE IF s[1] = " " THEN RemoveSpaces(Tail(s))
    ELSE <<s[1]>> \o RemoveSpaces(Tail(s))

MapSeq(Op(_), s) == [i \in 1..Len(s) |-> Op(s[i])]
RECURSIVE FilterSeq(_, _)
FilterSeq(Keep(_), s) ==
    IF s = <<>> THEN <<>>
    ELSE IF Keep(s[1]) THEN <<s[1]>> \o FilterSeq(Keep, Tail(s))
    ELSE FilterSeq(Keep, Tail(s))
Range(s) == { s[i] : i \in 1..Len(s) }

(***************************************************************************)
(* u32 and i64 arithmetic on limbs.                                        *)
(***************************************************************************)
Base == 2 ^ 16
U32Max == <<Base - 1, Base - 1>>
BigOf(n) == <<n \div Base, n % Base>>
BigLt(a, b) == a[1] < b[1] \/ (a[1] = b[1] /\ a[2] < b[2])
BigLe(a, b) == a = b \/ BigLt(a, b)
BigAdd(a, b) == <<a[1] + b[1] + ((a[2] + b[2]) \div Base), (a[2] + b[2]) % Base>>
\* a - b for b <= a
BigSub(a, b) ==
    IF a[2] >= b[2] THEN <<a[1] - b[1], a[2] - b[2]>>
    ELSE <<a[1] - b[1] - 1, a[2] + Base - b[2]>>
BigMul10Add(a, d) == <<a[1] * 10 + ((a[2] * 10 + d) \div Base), (a[2] * 10 + d) % Base>>

\* (a wrapping sum, where the code saturates)
WrappingAddU32(a, b) == <<BigAdd(a, b)[1] % Base, BigAdd(a, b)[2]>>

\* u32::saturating_add
SaturatingAddU32(a, b) == IF BigLe(BigAdd(a, b), U32Max) THEN BigAdd(a, b) ELSE U32Max

\* <u32 as FromStr>::from_str: optional '+', then digits only, no overflow
RECURSIVE ParseDigitsU32(_, _)
ParseDigitsU32(s, acc) ==
    IF s = <<>> THEN [ok |-> TRUE, val |-> acc]
    ELSE IF ~IsDigit(s[1]) THEN [ok |-> FALSE]
    ELSE IF ~BigLe(BigMul10Add(acc, DigitVal(s[1])), U32Max) THEN [ok |-> FALSE]
    ELSE ParseDigitsU32(Tail(s), BigMul10Add(acc, DigitVal(s[1])))
ParseU32(s) ==
    LET digits == IF s # <<>> /\ s[1] = "+" THEN Tail(s) ELSE s
    IN  IF digits = <<>> THEN [ok |-> FALSE] ELSE ParseDigitsU32(digits, <<0, 0>>)

(***************************************************************************)
(* chrono dates.  A NaiveDate is its day number since 1970-01-01, which    *)
(* orders dates as chrono does and makes `+ Duration::days(n)` an addition.*)
(***************************************************************************)
IsLeapYear(y) == (y % 4 = 0 /\ y % 100 # 0) \/ y % 400 = 0
DaysInMonth(y, m) ==
    IF m = 2 THEN (IF IsLeapYear(y) THEN 29 ELSE 28)
    ELSE IF m \in {4, 6, 9, 11} THEN 30 ELSE 31

\* NaiveDate::from_ymd_opt for a valid (y, m, d), y >= 1
DaysFromCivil(y, m, d) ==
    LET yy  == IF m <= 2 THEN y - 1 ELSE y
        era == yy \div 400
        yoe == yy - era * 400
        mp  == (m + 9) % 12
        doy == (153 * mp + 2) \div 5 + d - 1
        doe == yoe * 365 + yoe \div 4 - yoe \div 100 + doy
    IN  era * 146097 + doe - 719468

RECURSIVE CountDigits(_, _)
CountDigits(s, max) ==
    IF max = 0 \/ s = <<>> \/ ~IsDigit(s[1]) THEN 0
    ELSE 1 + CountDigits(Tail(s), max - 1)
RECURSIVE DigitsValue(_, _, _)
DigitsValue(s, n, acc) ==
    IF n = 0 THEN acc ELSE DigitsValue(Tail(s), n - 1, acc * 10 + DigitVal(s[1]))

\* NaiveDate::parse_from_str(s, "%Y-%m-%d") and, with spaced, (s, "%Y - %m - %d"):
\* a numeric item skips leading whitespace and takes 1..width digits, a
\* space in the format skips any whitespace, "-" must match, nothing may be
\* left over, and the fields must name a real day.  (Unsigned years only.)
ParseFromStr(s, spaced) ==
    LET Sp(x) == IF spaced THEN TrimStart(x) ELSE x
        a0 == TrimStart(s)
        ny == CountDigits(a0, 4)
        a1 == Sp(Drop(a0, ny))
        a2 == TrimStart(Sp(Drop(a1, 1)))
        nm == CountDigits(a2, 2)
        a3 == Sp(Drop(a2, nm))
        a4 == TrimStart(Sp(Drop(a3, 1)))
        nd == CountDigits(a4, 2)
        y  == DigitsValue(a0, ny, 0)
        m  == DigitsValue(a2, nm, 0)
        d  == DigitsValue(a4, nd, 0)
    IN  IF \/ ny = 0 \/ a1 = <<>> \/ a1[1] # "-"
           \/ nm = 0 \/ a3 = <<>> \/ a3[1] # "-"
           \/ nd = 0 \/ Drop(a4, nd) # <<>>
        THEN [ok |-> FALSE]
        ELSE IF y < 1 \/ m \notin 1..12 \/ d \notin 1..DaysInMonth(y, m)
        THEN [ok |-> FALSE]
        ELSE [ok |-> TRUE, date |-> DaysFromCivil(y, m, d)]

(***************************************************************************)
(* config.rs: the configuration read from the environment.                 *)
(***************************************************************************)
s_unit == <<"u","n","i","t">>
s_integration == <<"i","n","t","e","g","r","a","t","i","o","n">>
s_updated_eq == <<"u","p","d","a","t","e","d","=">>
s_updated_sp == <<"u","p","d","a","t","e","d"," ","="," ">>
s_resources_eq == <<"r","e","s","o","u","r","c","e","s","=">>
s_resources_sp == <<"r","e","s","o","u","r","c","e","s"," ","="," ">>

\* env::var(name): Err when the variable is not set
Unset == [set |-> FALSE]
SetTo(s) == [set |-> TRUE, val |-> s]

IsNonEmpty(s) == s # <<>>

\* read_env_var_list, given what env::var returned
read_env_var_list(v) ==
    FilterSeq(IsNonEmpty, MapSeq(RemoveSpaces, Split(IF v.set THEN v.val ELSE <<>>, ",")))

DefaultMax == 365
DefaultSkip == 30

\* the two halves of UnitAge::from_env, given what env::var returned
from_env_max(v) ==
    IF v.set /\ ParseU32(v.val).ok THEN ParseU32(v.val).val ELSE BigOf(DefaultMax)
from_env_skip(v) ==
    IF v.set /\ ParseU32(v.val).ok THEN ParseU32(v.val).val ELSE BigOf(DefaultSkip)

\* the iterator test shared by the three registry queries
AnyEqIgnoreCase(list, name) == \E i \in 1..Len(list) : EqIgnoreAsciiCase(list[i], name)

is_test_kind_excluded(excludeList, kind) == AnyEqIgnoreCase(excludeList, kind)

is_test_kind_defined(definedList, kind) ==
    IF definedList = <<>> THEN TRUE ELSE AnyEqIgnoreCase(definedList, kind)

is_test_resource_defined(knownList, resource) ==
    IF knownList = <<>> THEN TRUE ELSE AnyEqIgnoreCase(knownList, resource)

\* every order in which a HashSet may be collected into a Vec
RECURSIVE Orderings(_)
Orderings(S) ==
    IF S = {} THEN { <<>> }
    ELSE UNION { { <<x>> \o t : t \in Orderings(S \ {x}) } : x \in S }

\* (the difference taken ignoring case, where the code compares exact strings)
has_resources_available_ignoring_case(resources, availableList) ==
    Orderings({ r \in Range(resources) : ~AnyEqIgnoreCase(availableList, r) })

\* has_resources_available: the missing resources, in any iteration order
has_resources_available(resources, availableList) ==
    Orderings(Range(resources) \ Range(availableList))

(***************************************************************************)
(* unit_age.rs                                                             *)
(***************************************************************************)
Young == [age |-> "Young"]
Old == [age |-> "Old"]
Aged(k) == [age |-> "Aged", reason |-> [msg |-> "Silenced in {skip_left} days", skip_left |-> k]]

\* (aging without the opt-out for max = 0)
unit_aged_out_without_opt_out(unitAge, since, now) ==
    LET age        == now - since
        silent_age == SaturatingAddU32(unitAge.max, unitAge.skip)
    IN  IF age < 0 \/ BigLt(BigOf(age), unitAge.max) THEN Young
        ELSE IF BigLt(BigOf(age), silent_age) THEN Aged(BigSub(silent_age, BigOf(age)))
        ELSE Old

\* (aging with the skip window counted from the update, not from max)
unit_aged_out_skip_from_update(unitAge, since, now) ==
    LET age        == now - since
        silent_age == unitAge.skip
    IN  IF unitAge.max = <<0, 0>> THEN Young
        ELSE IF age < 0 \/ BigLt(BigOf(age), unitAge.max) THEN Young
        ELSE IF BigLt(BigOf(age), silent_age) THEN Aged(BigSub(silent_age, BigOf(age)))
        ELSE Old

\* UnitAge::unit_aged_out(since), with `now` the UTC date the call reads.
\* age is an i64 number of days (well inside the integer range for chrono
\* dates); max, skip and silent_age are u32 limbs.
unit_aged_out(unitAge, since, now) ==
    LET age        == now - since
        silent_age == SaturatingAddU32(unitAge.max, unitAge.skip)
    IN  IF unitAge.max = <<0, 0>> THEN Young
        ELSE IF age < 0 \/ BigLt(BigOf(age), unitAge.max) THEN Young
        ELSE IF BigLt(BigOf(age), silent_age) THEN Aged(BigSub(silent_age, BigOf(age)))
        ELSE Old

(***************************************************************************)
(* attribute_kind.rs.  A parse result also lists the lazy statics the call *)
(* dereferenced (`used`), in the order the code reaches them.  Errors carry*)
(* the name the specification gives the failure.                           *)
(***************************************************************************)
EXCLUDE == "TEST_KIND_EXCLUDE"
UNIT_AGE == "TEST_KIND_UNIT_AGE"
KNOWN_RESOURCES == "TEST_KIND_KNOWN_RESOURCES"
RESOURCES == "TEST_KIND_RESOURCES"
DEFINED == "TEST_KIND_DEFINED"
UNIT_SKIP == "TEST_KIND_UNIT_SKIP"
EnvVars == {EXCLUDE, UNIT_AGE, UNIT_SKIP, KNOWN_RESOURCES, RESOURCES, DEFINED}
ListStatics == {EXCLUDE, KNOWN_RESOURCES, RESOURCES, DEFINED}
Statics == ListStatics \cup {UNIT_AGE}

Unit(d) == [kind |-> "Unit", updated |-> d]
Integration == [kind |-> "Integration"]
Other(k, rs) == [kind |-> "Other", name |-> k, resources |-> rs]

Ok(v, used) == [ok |-> TRUE, val |-> v, used |-> used]
Err(e, used) == [ok |-> FALSE, err |-> e, used |-> used]

min_date == DaysFromCivil(2023, 10, 10)

\* (parse_updated with the window a day wider)
parse_updated_three_days_ahead(options, today) ==
    LET stripped == StripPrefix(options, s_updated_sp)
        parsed   == ParseFromStr(stripped.rest, TRUE)
        max_date == today + 3
    IN  IF ~stripped.some THEN Err("InvalidOptions", {})
        ELSE IF ~parsed.ok THEN Err("InvalidDateFormat", {})
        ELSE IF parsed.date < min_date THEN Err("DateTooEarly", {})
        ELSE IF parsed.date > max_date THEN Err("DateTooLate", {})
        ELSE Ok(parsed.date, {})

\* crate/src: AttributeKind::parse_updated, `today` being Local::now().date_naive()
parse_updated(options, today) ==
    LET stripped == StripPrefix(options, s_updated_sp)
        parsed   == ParseFromStr(stripped.rest, TRUE)
        max_date == today + 2
    IN  IF ~stripped.some THEN Err("InvalidOptions", {})
        ELSE IF ~parsed.ok THEN Err("InvalidDateFormat", {})
        ELSE IF parsed.date < min_date THEN Err("DateTooEarly", {})
        ELSE IF parsed.date > max_date THEN Err("DateTooLate", {})
        ELSE Ok(parsed.date, {})

\* crate/src: AttributeKind::parse_resources
parse_resources(kind, options, definedList, knownList) ==
    LET stripped  == StripPrefix(options, s_resources_sp)
        resources == MapSeq(Trim, Split(stripped.rest, ","))
        IsUnknown(r) == ~is_test_resource_defined(knownList, r)
        unknown_resources == FilterSeq(IsUnknown, resources)
    IN  IF ~is_test_kind_defined(definedList, kind) THEN Err("UndefinedKind", {DEFINED})
        ELSE IF ~stripped.some THEN Err("InvalidOptions", {DEFINED})
        ELSE IF resources = <<>> THEN Err("EmptyResourceList", {DEFINED})
        ELSE IF unknown_resources # <<>>
        THEN Err("UnknownResource", {DEFINED, KNOWN_RESOURCES})
        ELSE IF Len(resources) # Cardinality(Range(resources))
        THEN Err("DuplicateResource", {DEFINED, KNOWN_RESOURCES})
        ELSE Ok(resources, {DEFINED, KNOWN_RESOURCES})

\* crate/src: AttributeKind::from_str
from_str(attributes, today, definedList, knownList) ==
    LET parts == MapSeq(Trim, SplitN2(attributes, ","))
    IN  IF Len(parts) = 2 /\ parts[1] = s_unit
        THEN LET r == parse_updated(parts[2], today)
             IN  IF r.ok THEN Ok(Unit(r.val), r.used) ELSE r
        ELSE IF Len(parts) = 1 /\ parts[1] = s_integration
        THEN Ok(Integration, {})
        ELSE IF Len(parts) = 2
        THEN LET r == parse_resources(parts[1], parts[2], definedList, knownList)
             IN  IF r.ok THEN Ok(Other(parts[1], r.val), r.used) ELSE r
        ELSE Err("InvalidFormat", {})

\* src: AttributeKind::parse_updated of the LitStr variant
parse_updated_lit(options) ==
    LET stripped == StripPrefix(options, s_updated_eq)
        parsed   == ParseFromStr(stripped.rest, FALSE)
        max_date == min_date + 2
    IN  IF ~stripped.some THEN Err("InvalidOptions", {})
        ELSE IF ~parsed.ok THEN Err("InvalidDateFormat", {})
        ELSE IF parsed.date < min_date THEN Err("DateTooEarly", {})
        ELSE IF parsed.date > max_date THEN Err("DateTooLate", {})
        ELSE Ok(parsed.date, {})

\* src: AttributeKind::parse_resources of the LitStr variant
parse_resources_lit(kind, options, definedList) ==
    LET stripped  == StripPrefix(options, s_resources_eq)
        resources == MapSeq(Trim, Split(stripped.rest, ","))
    IN  IF ~is_test_kind_defined(definedList, kind) THEN Err("UndefinedKind", {DEFINED})
        ELSE IF ~stripped.some THEN Err("InvalidOptions", {DEFINED})
        ELSE IF resources = <<>> THEN Err("EmptyResourceList", {DEFINED})
        ELSE IF Len(resources) # Cardinality(Range(resources))
        THEN Err("DuplicateResource", {DEFINED})
        ELSE Ok(resources, {DEFINED})

\* src: AttributeKind::from_lit_str
from_lit_str(lit_str, definedList) ==
    LET parts == MapSeq(Trim, Split(lit_str, ","))
    IN  IF Len(parts) = 2 /\ parts[1] = s_unit
        THEN LET r == parse_updated_lit(parts[2])
             IN  IF r.ok THEN Ok(Unit(r.val), r.used) ELSE r
        ELSE IF Len(parts) = 1 /\ parts[1] = s_integration
        THEN Ok(Integration, {})
        ELSE IF Len(parts) = 2
        THEN IF is_test_kind_defined(definedList, parts[1])
             THEN LET r == parse_resources_lit(parts[1], parts[2], definedList)
                  IN  IF r.ok THEN Ok(Other(parts[1], r.val), r.used) ELSE r
             ELSE Err("UndefinedKind", {DEFINED})
        ELSE Err("InvalidFormat", {})

\* TestSettings
Run == [do |-> "Run"]
Ignore == [do |-> "Ignore"]
Skip(reason) == [do |-> "Skip", reason |-> reason]

UnitExcluded == [msg |-> "Unit tests are excluded"]
IntegrationExcluded == [msg |-> "Integration tests are excluded"]
KindExcluded(k) == [msg |-> "Test of kind: {kind} are excluded", kind |-> k]
KindRequires(k, missing) ==
    [msg |-> "Test of kind: {kind} requires {missing_resources:?}", kind |-> k,
     missing_resources |-> missing]

\* (the exclusion test done on exact strings, where the code ignores case)
is_excluded_exact_case(self, excludeList) ==
    IF self.kind = "Unit" THEN s_unit \in Range(excludeList)
    ELSE IF self.kind = "Integration" THEN s_integration \in Range(excludeList)
    ELSE self.name \in Range(excludeList)

\* AttributeKind::is_excluded
is_excluded(self, excludeList) ==
    IF self.kind = "Unit" THEN is_test_kind_excluded(excludeList, s_unit)
    ELSE IF self.kind = "Integration" THEN is_test_kind_excluded(excludeList, s_integration)
    ELSE is_test_kind_excluded(excludeList, self.name)

\* The lazy statics AttributeKind::what_to_do dereferences.
what_to_do_uses(self, now, unitAge, excludeList) ==
    IF self.kind = "Unit"
    THEN (IF unit_aged_out(unitAge, self.updated, now).age = "Young"
          THEN {UNIT_AGE, EXCLUDE} ELSE {UNIT_AGE})
    ELSE IF self.kind = "Integration" THEN {EXCLUDE}
    ELSE IF is_test_kind_excluded(excludeList, self.name) THEN {EXCLUDE}
    ELSE {EXCLUDE, RESOURCES}

\* (what_to_do with the exclusion test of the Other arm left out)
what_to_do_other_never_excluded(self, now, unitAge, excludeList, availableList) ==
    IF self.kind = "Unit"
    THEN LET r == unit_aged_out(unitAge, self.updated, now)
         IN  IF r.age = "Young"
             THEN (IF is_excluded(self, excludeList) THEN { Skip(UnitExcluded) } ELSE { Run })
             ELSE IF r.age = "Aged" THEN { Skip(r.reason) }
             ELSE { Ignore }
    ELSE IF self.kind = "Integration"
    THEN (IF is_excluded(self, excludeList) THEN { Skip(IntegrationExcluded) } ELSE { Run })
    ELSE { IF missing_resources = <<>> THEN Run
           ELSE Skip(KindRequires(self.name, missing_resources))
           : missing_resources \in has_resources_available(self.resources, availableList) }

\* (what_to_do with an Aged unit test dropped like an Old one)
what_to_do_aged_ignored(self, now, unitAge, excludeList, availableList) ==
    IF self.kind = "Unit"
    THEN LET r == unit_aged_out(unitAge, self.updated, now)
         IN  IF r.age = "Young"
             THEN (IF is_excluded(self, excludeList) THEN { Skip(UnitExcluded) } ELSE { Run })
             ELSE { Ignore }
    ELSE IF self.kind = "Integration"
    THEN (IF is_excluded(self, excludeList) THEN { Skip(IntegrationExcluded) } ELSE { Run })
    ELSE IF is_test_kind_excluded(excludeList, self.name)
    THEN { Skip(KindExcluded(self.name)) }
    ELSE { IF missing_resources = <<>> THEN Run
           ELSE Skip(KindRequires(self.name, missing_resources))
           : missing_resources \in has_resources_available(self.resources, availableList) }

\* AttributeKind::what_to_do: the settings the call may return (one, except
\* for the order of a Vec collected from a HashSet), `now` being the UTC
\* date unit_aged_out reads.
what_to_do(self, now, unitAge, excludeList, availableList) ==
    IF self.kind = "Unit"
    THEN LET r == unit_aged_out(unitAge, self.updated, now)
         IN  IF r.age = "Young"
             THEN (IF is_excluded(self, excludeList) THEN { Skip(UnitExcluded) } ELSE { Run })
             ELSE IF r.age = "Aged" THEN { Skip(r.reason) }
             ELSE { Ignore }
    ELSE IF self.kind = "Integration"
    THEN (IF is_excluded(self, excludeList) THEN { Skip(IntegrationExcluded) } ELSE { Run })
    ELSE IF is_test_kind_excluded(excludeList, self.name)
    THEN { Skip(KindExcluded(self.name)) }
    ELSE { IF missing_resources = <<>> THEN Run
           ELSE Skip(KindRequires(self.name, missing_resources))
           : missing_resources \in has_resources_available(self.resources, availableList) }

(***************************************************************************)
(* Inputs: attribute texts, environments and dates.                        *)
(***************************************************************************)
MaxEvents == 2

s_Unit == <<"U","n","i","t">>
s_Integration == <<"I","n","t","e","g","r","a","t","i","o","n">>
s_api == <<"a","p","i">>
s_API == <<"A","P","I">>
s_db == <<"d","b">>
s_DB == <<"D","B">>
s_cache == <<"c","a","c","h","e">>
n_0 == <<"0">>
n_1 == <<"1">>
n_2 == <<"2">>
n_365 == <<"3","6","5">>
n_u32max == <<"4","2","9","4","9","6","7","2","9","5">>
n_overflow == <<"4","2","9","4","9","6","7","2","9","6">>
n_minus1 == <<"-","1">>
Sep == <<",", " ">>
Com == <<",">>

Dg(n) == DigitChars[n + 1]
\* the text of a date <<y, m, d>>: YYYY-MM-DD, or YYYY - MM - DD as the
\* tokens of an attribute print
DateText(dt, spaced) ==
    LET dash == IF spaced THEN <<" ", "-", " ">> ELSE <<"-">>
    IN  <<Dg(dt[1] \div 1000), Dg((dt[1] \div 100) % 10), Dg((dt[1] \div 10) % 10), Dg(dt[1] % 10)>>
        \o dash \o <<Dg(dt[2] \div 10), Dg(dt[2] % 10)>>
        \o dash \o <<Dg(dt[3] \div 10), Dg(dt[3] % 10)>>
DayOf(dt) == DaysFromCivil(dt[1], dt[2], dt[3])

UnitAttrPlain(dt) == s_unit \o Sep \o s_updated_eq \o DateText(dt, FALSE)
UnitAttrTokens(dt) == s_unit \o Sep \o s_updated_sp \o DateText(dt, TRUE)
OtherAttrPlain(kind, list) == kind \o Sep \o s_resources_eq \o list
OtherAttrTokens(kind, list) == kind \o Sep \o s_resources_sp \o list

EnvOf(ex, age, skip, known, res, def) ==
    [v \in EnvVars |->
        CASE v = EXCLUDE -> ex [] v = UNIT_AGE -> age [] v = UNIT_SKIP -> skip
          [] v = KNOWN_RESOURCES -> known [] v = RESOURCES -> res [] v = DEFINED -> def]
EnvUnset == EnvOf(Unset, Unset, Unset, Unset, Unset, Unset)

Scene(e, utc, local, as) == [env |-> e, utc |-> utc, local |-> local, attrs |-> as]

\* the validity window of `updated`
WindowDates == { <<2023,10,9>>, <<2023,10,10>>, <<2023,10,12>>, <<2023,10,13>>,
                 <<2024,10,16>>, <<2024,10,17>> }
WindowClocks == { <<DayOf(<<2023,10,11>>), DayOf(<<2023,10,11>>)>>,
                  <<DayOf(<<2024,10,14>>), DayOf(<<2024,10,14>>)>>,
                  <<DayOf(<<2024,10,14>>), DayOf(<<2024,10,15>>)>>,
                  <<DayOf(<<2024,10,15>>), DayOf(<<2024,10,14>>)>> }
WindowScenes ==
    { Scene(EnvUnset, c[1], c[2], {UnitAttrPlain(dt), UnitAttrTokens(dt)})
        : c \in WindowClocks, dt \in WindowDates }

\* dates that are not dates, and attributes that are not attributes
BadDateScenes ==
    { Scene(EnvUnset, DayOf(<<2024,10,14>>), DayOf(<<2024,10,14>>),
            { UnitAttrPlain(<<2023,2,30>>), UnitAttrTokens(<<2023,13,1>>), s_unit,
              s_Unit \o Sep \o s_updated_eq \o DateText(<<2023,10,10>>, FALSE) }) }

\* aging with the default thresholds (also what malformed values fall back to)
DefaultAgeEnvs ==
    { EnvOf(Unset, t[1], t[2], Unset, Unset, Unset)
        : t \in { <<Unset, Unset>>, <<SetTo(n_minus1), SetTo(n_overflow)>>,
                  <<SetTo(n_0), Unset>>, <<SetTo(n_365), SetTo(n_0)>> } }
    \cup { EnvOf(SetTo(s_Unit), t[1], t[2], Unset, Unset, Unset)
        : t \in { <<Unset, Unset>>, <<SetTo(n_0), Unset>> } }
DefaultAgeClocks == { DayOf(<<2023,10,10>>) + a : a \in {364, 365, 370, 394, 395, 400} }
DefaultAgeScenes ==
    { Scene(e, c, c, {UnitAttrPlain(<<2023,10,10>>), UnitAttrTokens(<<2023,10,10>>)})
        : e \in DefaultAgeEnvs, c \in DefaultAgeClocks }

\* aging with small and with extreme thresholds
SmallAgeEnvs ==
    { EnvOf(Unset, SetTo(t[1]), SetTo(t[2]), Unset, Unset, Unset)
        : t \in { <<n_1, n_2>>, <<n_1, n_u32max>>, <<n_u32max, n_1>>, <<n_2, n_0>> } }
    \cup { EnvOf(SetTo(s_Unit), SetTo(n_1), SetTo(n_2), Unset, Unset, Unset) }
SmallAgeCases ==
    { <<DayOf(<<2023,10,10>>) + a, <<2023,10,10>>>> : a \in 0..4 }
    \cup { <<DayOf(<<2023,10,10>>) + a, <<2023,10,12>>>> : a \in 0..1 }
SmallAgeScenes ==
    { Scene(e, c[1], c[1], {UnitAttrPlain(c[2]), UnitAttrTokens(c[2])})
        : e \in SmallAgeEnvs, c \in SmallAgeCases }

\* resource lists against the defined-kind and known-resource registries
ResourceLists ==
    { <<>>, <<" ">>, Com, s_db \o Com \o s_db, s_db \o Sep \o s_db \o <<" ">>,
      s_db \o Sep \o s_cache, s_db \o Com \o s_DB, s_cache \o <<" ">> \o Com \o s_db \o Sep \o s_cache }
RegistryEnvs ==
    { EnvOf(Unset, Unset, Unset, known, Unset, def)
        : known \in {Unset, SetTo(s_cache), SetTo(s_DB \o Sep \o s_cache)},
          def \in {Unset, SetTo(s_API)} }
    \cup { EnvOf(Unset, Unset, Unset, Unset, Unset, SetTo(s_cache)) }
RegistryScenes ==
    { Scene(e, DayOf(<<2024,10,14>>), DayOf(<<2024,10,14>>),
            {OtherAttrPlain(s_api, l), OtherAttrTokens(s_api, l)})
        : e \in RegistryEnvs, l \in ResourceLists }

\* resources against what the environment offers, and excluded kinds
AvailableEnvs ==
    { EnvOf(ex, Unset, Unset, Unset, res, Unset)
        : ex \in {Unset, SetTo(s_API), SetTo(s_unit \o Sep \o s_Integration)},
          res \in {Unset, SetTo(s_db), SetTo(s_cache \o Sep \o s_db)} }
AvailableAttrs ==
    { <<s_api, s_db>>, <<s_api, s_db \o Sep \o s_cache>>, <<s_api, s_DB>>,
      <<s_integration, s_db>> }
AvailableScenes ==
    { Scene(e, DayOf(<<2024,10,14>>), DayOf(<<2024,10,14>>),
            {OtherAttrPlain(a[1], a[2]), OtherAttrTokens(a[1], a[2])})
        : e \in AvailableEnvs, a \in AvailableAttrs }

\* integration tests
IntegrationEnvs ==
    { EnvOf(ex, o[1], Unset, Unset, o[2], o[3])
        : ex \in {Unset, SetTo(s_Integration), SetTo(s_unit \o Com \o s_api),
                  SetTo(s_API \o Sep \o <<"i","n","t","e","g"," ","r","a","t","i","o","n">>)},
          o \in { <<Unset, Unset, Unset>>, <<SetTo(n_1), SetTo(s_db), SetTo(s_api)>> } }
IntegrationScenes ==
    { Scene(e, c, c, {s_integration, <<" ">> \o s_integration \o <<" ">>, s_Integration})
        : e \in IntegrationEnvs, c \in {DayOf(<<2023,10,11>>), DayOf(<<2024,11,13>>)} }

Scenarios ==
    WindowScenes \cup BadDateScenes \cup DefaultAgeScenes \cup SmallAgeScenes
    \cup RegistryScenes \cup AvailableScenes \cup IntegrationScenes

\* what another part of the process may set while the macro runs
EnvEdits ==
    { <<EXCLUDE, SetTo(s_unit \o Com \o s_integration \o Com \o s_api)>>,
      <<UNIT_SKIP, SetTo(n_2)>>,
      <<DEFINED, SetTo(s_api)>> }

(***************************************************************************)
(* The process: the environment, the clock, the five lazy statics of       *)
(* config.rs and the concurrent invocations of the test_kind macro.        *)
(***************************************************************************)
VARIABLES
    variant,    \* which attribute_kind.rs the build holds: "crate" or "src"
    attrs,      \* the attribute texts of the tests being compiled
    env,        \* the process environment: variable name -> Unset / SetTo(s)
    envHist,    \* history: every environment the process has had, in order
    lazy,       \* lazy_static cells: name -> uninit / running / ready
    reads,      \* history: how many times each variable was read by env::var
    utcDate,    \* Utc::now().naive_utc().date()
    localDate,  \* Local::now().date_naive()
    events,     \* environment changes and midnights so far
    worker      \* per invocation: pc, attribute text, the dates it read, the
                \* parse result, the UnitAgeResult and the TestSettings

vars == <<variant, attrs, env, envHist, lazy, reads, utcDate, localDate, events, worker>>

Workers == {"w1", "w2"}
Variants == {"crate", "src"}

Uninit == [st |-> "uninit"]
Ready(v) == [st |-> "ready", val |-> v]

\* What dereferencing a list static yields now: its value, or, on first
\* use, what its initializer reads from the environment (lazy_static's Once
\* runs the initializer once and blocks every other first user meanwhile).
Deref(name) ==
    IF lazy[name].st = "ready" THEN lazy[name].val ELSE read_env_var_list(env[name])

\* (cells re-initialized on every dereference, as without the Once)
Forced_on_every_use(used) ==
    [n \in Statics |->
        IF n \in used /\ n \in ListStatics
        THEN Ready(read_env_var_list(env[n])) ELSE lazy[n]]

\* The cells after a call dereferenced the list statics in `used`.
Forced(used) ==
    [n \in Statics |->
        IF n \in used /\ n \in ListStatics /\ lazy[n].st = "uninit"
        THEN Ready(read_env_var_list(env[n])) ELSE lazy[n]]
ReadsAfter(used) ==
    [v \in EnvVars |->
        IF v \in used /\ v \in ListStatics /\ lazy[v].st = "uninit"
        THEN reads[v] + 1 ELSE reads[v]]

Idle == [pc |-> "idle"]

\* lib.rs test_kind, first half (crate variant): AttributeKind::from_str on
\* the attribute; an Err is returned as a compile error.
FromStr(w, a) ==
    /\ variant = "crate"
    /\ worker[w].pc = "idle"
    /\ LET r == from_str(a, localDate, Deref(DEFINED), Deref(KNOWN_RESOURCES))
       IN  /\ worker' = [worker EXCEPT ![w] =
                  [pc |-> IF r.ok THEN "parsed" ELSE "error",
                   attributes |-> a, today |-> localDate, result |-> r]]
           /\ lazy' = Forced(r.used)
           /\ reads' = ReadsAfter(r.used)
    /\ UNCHANGED <<variant, attrs, env, envHist, utcDate, localDate, events>>

\* lib.rs test_kind, first half (src variant): AttributeKind::from_lit_str.
FromLitStr(w, a) ==
    /\ variant = "src"
    /\ worker[w].pc = "idle"
    /\ LET r == from_lit_str(a, Deref(DEFINED))
       IN  /\ worker' = [worker EXCEPT ![w] =
                  [pc |-> IF r.ok THEN "parsed" ELSE "error",
                   attributes |-> a, today |-> localDate, result |-> r]]
           /\ lazy' = Forced(r.used)
           /\ reads' = ReadsAfter(r.used)
    /\ UNCHANGED <<variant, attrs, env, envHist, utcDate, localDate, events>>

\* First dereference of TEST_KIND_UNIT_AGE by what_to_do on a Unit:
\* UnitAge::from_env reads TEST_KIND_UNIT_AGE ...
FromEnvMax(w) ==
    /\ worker[w].pc = "parsed"
    /\ worker[w].result.val.kind = "Unit"
    /\ lazy[UNIT_AGE].st = "uninit"
    /\ lazy' = [lazy EXCEPT ![UNIT_AGE] =
                  [st |-> "running", by |-> w, max |-> from_env_max(env[UNIT_AGE])]]
    /\ reads' = [reads EXCEPT ![UNIT_AGE] = @ + 1]
    /\ UNCHANGED <<variant, attrs, env, envHist, utcDate, localDate, events, worker>>

\* ... and then TEST_KIND_UNIT_SKIP, and the cell becomes ready.
FromEnvSkip(w) ==
    /\ lazy[UNIT_AGE].st = "running"
    /\ lazy[UNIT_AGE].by = w
    /\ lazy' = [lazy EXCEPT ![UNIT_AGE] =
                  Ready([max |-> lazy[UNIT_AGE].max, skip |-> from_env_skip(env[UNIT_SKIP])])]
    /\ reads' = [reads EXCEPT ![UNIT_SKIP] = @ + 1]
    /\ UNCHANGED <<variant, attrs, env, envHist, utcDate, localDate, events, worker>>

\* lib.rs test_kind, second half: AttributeKind::what_to_do on the parsed kind.
WhatToDo(w) ==
    /\ worker[w].pc = "parsed"
    /\ LET self == worker[w].result.val
           unitAge == lazy[UNIT_AGE].val
           used == what_to_do_uses(self, utcDate, unitAge, Deref(EXCLUDE))
       IN  /\ self.kind = "Unit" => lazy[UNIT_AGE].st = "ready"
           /\ \E s \in what_to_do(self, utcDate, unitAge, Deref(EXCLUDE), Deref(RESOURCES)) :
                 worker' = [worker EXCEPT ![w] =
                     [pc |-> "done", attributes |-> @.attributes, today |-> @.today,
                      result |-> @.result, now |-> utcDate,
                      aged |-> IF self.kind = "Unit"
                               THEN unit_aged_out(unitAge, self.updated, utcDate)
                               ELSE [age |-> "none"],
                      settings |-> s]]
           /\ lazy' = Forced(used)
           /\ reads' = ReadsAfter(used)
    /\ UNCHANGED <<variant, attrs, env, envHist, utcDate, localDate, events>>

\* Another part of the process (any proc macro or build script sharing it)
\* calls env::set_var / env::remove_var.
SetEnv(name, v) ==
    /\ events < MaxEvents
    /\ env[name] # v
    /\ env' = [env EXCEPT ![name] = v]
    /\ envHist' = Append(envHist, env')
    /\ events' = events + 1
    /\ UNCHANGED <<variant, attrs, lazy, reads, utcDate, localDate, worker>>

\* Midnight passes in UTC, or in the local time zone; the two dates never
\* differ by more than a day.
MidnightUtc ==
    /\ events < MaxEvents
    /\ utcDate + 1 - localDate <= 1
    /\ utcDate' = utcDate + 1
    /\ events' = events + 1
    /\ UNCHANGED <<variant, attrs, env, envHist, lazy, reads, localDate, worker>>

MidnightLocal ==
    /\ events < MaxEvents
    /\ localDate + 1 - utcDate <= 1
    /\ localDate' = localDate + 1
    /\ events' = events + 1
    /\ UNCHANGED <<variant, attrs, env, envHist, lazy, reads, utcDate, worker>>

Init ==
    /\ variant \in Variants
    /\ \E sc \in Scenarios :
          /\ attrs = sc.attrs
          /\ env = sc.env
          /\ utcDate = sc.utc
          /\ localDate = sc.local
    /\ envHist = <<env>>
    /\ lazy = [n \in Statics |-> Uninit]
    /\ reads = [v \in EnvVars |-> 0]
    /\ events = 0
    /\ worker = [w \in Workers |-> Idle]

Next ==
    \/ \E w \in Workers, a \in attrs : FromStr(w, a)
    \/ \E w \in Workers, a \in attrs : FromLitStr(w, a)
    \/ \E w \in Workers : FromEnvMax(w)
    \/ \E w \in Workers : FromEnvSkip(w)
    \/ \E w \in Workers : WhatToDo(w)
    \/ \E e \in EnvEdits : SetEnv(e[1], e[2])
    \/ MidnightUtc
    \/ MidnightLocal

Spec == Init /\ [][Next]_vars

(***************************************************************************)
(* Properties.                                                             *)
(***************************************************************************)
Called(w) == worker[w].pc # "idle"
Decided(w) == worker[w].pc = "done"
Failed(w, e) == ~worker[w].result.ok /\ worker[w].result.err = e
Yields(w, k) == worker[w].result.ok /\ worker[w].result.val = k

\* the attribute text as the build's parser is handed it: the value of the
\* string literal (src), or the printed tokens (crate)
UnitAttrFor(dt) == IF variant = "src" THEN UnitAttrPlain(dt) ELSE UnitAttrTokens(dt)
OtherAttrFor(k, l) == IF variant = "src" THEN OtherAttrPlain(k, l) ELSE OtherAttrTokens(k, l)

LowerStr(s) == [i \in 1..Len(s) |-> ToAsciiLowercase(s[i])]
ListedIn(list, name) == \E i \in 1..Len(list) : LowerStr(list[i]) = LowerStr(name)
TrimmedItems(l) == MapSeq(Trim, Split(l, ","))
HasDuplicate(l) ==
    \E i, j \in 1..Len(TrimmedItems(l)) : i # j /\ TrimmedItems(l)[i] = TrimmedItems(l)[j]
\* isKindDefined under the configuration the process resolves: the static,
\* or, before its first use, what that first use would read
KindIsDefined(k) == Deref(DEFINED) = <<>> \/ ListedIn(Deref(DEFINED), k)

\* C1: for every well-formed date d, parsing "unit, updated=d" fails with
\* DateTooLate exactly when d is later than the current date plus 2 days,
\* and every d with 2023-10-10 <= d <= today + 2 days yields Unit{updated: d}.
C1_DateWindowMovesWithToday ==
    \A w \in Workers : \A dt \in WindowDates :
        (Called(w) /\ worker[w].attributes = UnitAttrFor(dt)) =>
            /\ Failed(w, "DateTooLate") <=> DayOf(dt) > worker[w].today + 2
            /\ (DayOf(<<2023,10,10>>) <= DayOf(dt) /\ DayOf(dt) <= worker[w].today + 2)
                  => Yields(w, Unit(DayOf(dt)))

\* C1, crate variant alone: there the window does move with today.
C1_CrateWindowMovesWithToday == variant = "crate" => C1_DateWindowMovesWithToday

\* C2: for a defined kind other than unit/integration, a resource list in
\* which two trimmed items are equal fails with DuplicateResource, whatever
\* the configuration.
C2_DuplicateResource ==
    \A w \in Workers : \A l \in ResourceLists :
        (Called(w) /\ worker[w].attributes = OtherAttrFor(s_api, l)
           /\ HasDuplicate(l) /\ KindIsDefined(s_api))
        => Failed(w, "DuplicateResource")

\* C3: "<kind>, resources=" with nothing, or only whitespace, after the
\* equals sign fails with EmptyResourceList for every defined kind.
C3_EmptyResourceList ==
    \A w \in Workers : \A l \in ResourceLists :
        (Called(w) /\ worker[w].attributes = OtherAttrFor(s_api, l)
           /\ Trim(l) = <<>> /\ KindIsDefined(s_api))
        => Failed(w, "EmptyResourceList")

Self(w) == worker[w].result.val
Settings(w) == worker[w].settings
IsUnit(w) == Decided(w) /\ Self(w).kind = "Unit"
IsIntegration(w) == Decided(w) /\ Self(w).kind = "Integration"
IsOther(w) == Decided(w) /\ Self(w).kind = "Other"
ExcludeIsRead == lazy[EXCLUDE].st = "ready"
KindName(w) ==
    IF Self(w).kind = "Unit" THEN s_unit
    ELSE IF Self(w).kind = "Integration" THEN s_integration ELSE Self(w).name
\* the classification's kind is matched by the exclusion list the process holds
KindExcludedFor(w) == ExcludeIsRead /\ ListedIn(lazy[EXCLUDE].val, KindName(w))

C5_UnitDecision ==
    \A w \in Workers : IsUnit(w) =>
        LET ad == worker[w].aged
            excluded == ListedIn(lazy[EXCLUDE].val, s_unit)
        IN  /\ ad.age \in {"Young", "Aged", "Old"}
            /\ Settings(w) = Run <=> (ad.age = "Young" /\ ~excluded)
            /\ Settings(w) = Skip(UnitExcluded) <=> (ad.age = "Young" /\ excluded)
            /\ ad.age = "Aged" <=> (Settings(w).do = "Skip" /\ Settings(w) # Skip(UnitExcluded))
            /\ ad.age = "Aged" => Settings(w) = Skip(ad.reason)
            /\ Settings(w) = Ignore <=> ad.age = "Old"

C5_Witness ==
    \E w, v \in Workers :
        /\ IsUnit(w) /\ worker[w].aged.age = "Aged" /\ Settings(w) = Skip(worker[w].aged.reason)
        /\ IsUnit(v) /\ worker[v].aged.age = "Young" /\ Settings(v) = Skip(UnitExcluded)

MaxDays == lazy[UNIT_AGE].val.max
SkipDays == lazy[UNIT_AGE].val.skip
AgeOf(w) == worker[w].now - Self(w).updated
\* maxDays + skipDays, held at the u32 maximum
SilentAge == IF BigLt(U32Max, BigAdd(MaxDays, SkipDays)) THEN U32Max ELSE BigAdd(MaxDays, SkipDays)
\* an age in days (possibly negative) is below a u32 threshold
Below(age, limit) == age < 0 \/ BigLt(BigOf(age), limit)

\* C6: for maxDays > 0 and age = now - updated in whole days: Young iff
\* age < maxDays; Aged("Silenced in k days") with k = (maxDays + skipDays) -
\* age iff maxDays <= age < maxDays + skipDays; Old iff age >= maxDays +
\* skipDays; the sum saturating at the u32 maximum.  With 365 and 30 that is
\* Aged with k = 25 at age 370 and Old at age 400.
C6_AgeEvaluation ==
    \A w \in Workers : (IsUnit(w) /\ MaxDays # <<0, 0>>) =>
        LET ad == worker[w].aged
            age == AgeOf(w)
        IN  /\ ad = Young <=> Below(age, MaxDays)
            /\ ad.age = "Aged" <=> (~Below(age, MaxDays) /\ Below(age, SilentAge))
            /\ ad.age = "Aged" => ad = Aged(BigSub(SilentAge, BigOf(age)))
            /\ ad = Old <=> ~Below(age, SilentAge)
            /\ (MaxDays = BigOf(365) /\ SkipDays = BigOf(30) /\ age = 370) => ad = Aged(BigOf(25))
            /\ (MaxDays = BigOf(365) /\ SkipDays = BigOf(30) /\ age = 400) => ad = Old

C6_Witness ==
    \E w \in Workers :
        /\ IsUnit(w) /\ MaxDays = BigOf(1) /\ SkipDays = U32Max /\ AgeOf(w) = 2
        /\ worker[w].aged = Aged(BigSub(U32Max, BigOf(2)))

\* C7: with maxAgeDays = 0 aging is disabled: a Unit is never Ignore and
\* never Skip with an aging reason, however old; it is Run when "unit" is
\* not excluded.
C7_AgingDisabled ==
    \A w \in Workers : (IsUnit(w) /\ MaxDays = <<0, 0>>) =>
        /\ worker[w].aged = Young
        /\ Settings(w) # Ignore
        /\ Settings(w) \in {Run, Skip(UnitExcluded)}
        /\ ~ListedIn(lazy[EXCLUDE].val, s_unit) => Settings(w) = Run

C7_Witness ==
    \E w \in Workers :
        /\ IsUnit(w) /\ MaxDays = <<0, 0>> /\ AgeOf(w) = 400
        /\ ~ListedIn(lazy[EXCLUDE].val, s_unit) /\ Settings(w) = Run

\* C8: an Other whose kind is excluded is Skip("Test of kind: {kind} are
\* excluded") whatever its resources; otherwise it is Run iff every
\* requested resource is available, else Skip naming exactly the requested
\* resources that are not available, compared as exact strings.
C8_OtherDecision ==
    \A w \in Workers : IsOther(w) =>
        LET requested == Range(Self(w).resources)
            available == Range(lazy[RESOURCES].val)
        IN  IF ListedIn(lazy[EXCLUDE].val, Self(w).name)
            THEN Settings(w) = Skip(KindExcluded(Self(w).name))
            ELSE /\ Settings(w) = Run <=> requested \subseteq available
                 /\ Settings(w) # Run =>
                       /\ Settings(w).do = "Skip"
                       /\ Settings(w).reason.msg = KindRequires(<<>>, <<>>).msg
                       /\ Settings(w).reason.kind = Self(w).name
                       /\ Range(Settings(w).reason.missing_resources) = requested \ available
                       /\ Len(Settings(w).reason.missing_resources)
                             = Cardinality(requested \ available)

C8_Witness ==
    \E w \in Workers :
        /\ IsOther(w) /\ ~ListedIn(lazy[EXCLUDE].val, Self(w).name)
        /\ Self(w).resources = <<s_DB>> /\ lazy[RESOURCES].val = <<s_db>>
        /\ Settings(w) = Skip(KindRequires(Self(w).name, <<s_DB>>))

\* C9: Integration is Skip("Integration tests are excluded") iff the
\* exclusion list has an entry equal to "integration" ignoring ASCII case,
\* and Run otherwise, whatever the date, the thresholds and the registries.
C9_IntegrationDecision ==
    \A w \in Workers : IsIntegration(w) =>
        /\ ExcludeIsRead
        /\ Settings(w) = IF ListedIn(lazy[EXCLUDE].val, s_integration)
                         THEN Skip(IntegrationExcluded) ELSE Run

C9_Witness ==
    \E w \in Workers :
        /\ IsIntegration(w) /\ lazy[EXCLUDE].val = <<s_Integration>>
        /\ Settings(w) = Skip(IntegrationExcluded)
        /\ env[UNIT_AGE] = SetTo(n_1) /\ env[RESOURCES] = SetTo(s_db)
        /\ lazy[UNIT_AGE].st = "uninit" /\ lazy[RESOURCES].st = "uninit"

\* what static n would hold had its settings been read from e
SnapshotOf(n, e) ==
    IF n = UNIT_AGE
    THEN [max |-> from_env_max(e[UNIT_AGE]), skip |-> from_env_skip(e[UNIT_SKIP])]
    ELSE read_env_var_list(e[n])
AgreesWith(n, e) ==
    /\ lazy[n].st = "ready" => lazy[n].val = SnapshotOf(n, e)
    /\ lazy[n].st = "running" => lazy[n].max = SnapshotOf(n, e).max
Environments == { envHist[i] : i \in DOMAIN envHist }
\* the environment variables behind a static
VarsOf(n) == IF n = UNIT_AGE THEN {UNIT_AGE, UNIT_SKIP} ELSE {n}

\* C10 as stated: whatever the interleaving and however the environment
\* changes, all calls observe one snapshot of all six settings, taken at
\* one point: the values held are those of one environment of the process.
C10_SingleSnapshot ==
    \E e \in Environments : \A n \in Statics : AgreesWith(n, e)

\* C10 as the code has it: each setting is read at most once, on the first
\* use of its own lazy static; what a static holds was read from an
\* environment the process had (each setting from its own), and once a
\* static is initialized no step changes it.
C10_ReadOncePerSetting ==
    /\ [](\A n \in Statics :
            /\ \A v \in VarsOf(n) : reads[v] <= 1
            /\ lazy[n].st = "uninit" => \A v \in VarsOf(n) : reads[v] = 0
            /\ lazy[n].st = "ready" => \A v \in VarsOf(n) : reads[v] = 1
            /\ (lazy[n].st = "ready" /\ n # UNIT_AGE) => \E e \in Environments : AgreesWith(n, e)
            /\ (lazy[n].st = "ready" /\ n = UNIT_AGE) =>
                  \E e1, e2 \in Environments :
                      /\ lazy[n].val.max = SnapshotOf(n, e1).max
                      /\ lazy[n].val.skip = SnapshotOf(n, e2).skip)
    /\ [][\A n \in Statics : lazy[n].st = "ready" => lazy'[n] = lazy[n]]_vars

C10_Witness ==
    /\ \A w \in Workers : Decided(w)
    /\ lazy[DEFINED].st = "ready" /\ lazy[EXCLUDE].st = "ready"
    /\ lazy[DEFINED].val # read_env_var_list(env[DEFINED])
    /\ ~C10_SingleSnapshot

\* what a run of parse-then-decide produced: the parse error, or the
\* classification and, once decided, the settings
Outcome(w) ==
    IF ~worker[w].result.ok THEN <<"Err", worker[w].result.err>>
    ELSE IF Decided(w) THEN <<"Ok", Self(w), Settings(w)>>
    ELSE <<"Ok", Self(w)>>
Finished(w) == worker[w].pc \in {"error", "done"}
\* the dates a finished run read from its clocks: the local date of the
\* window check and, when it went on to decide, the UTC date of the age
DatesOf(w) == IF Decided(w) THEN <<worker[w].today, worker[w].now>> ELSE <<worker[w].today>>
\* the settings with the missing resources taken as a set
UpToOrder(o) ==
    IF Len(o) = 3 /\ o[3].do = "Skip" /\ "missing_resources" \in DOMAIN o[3].reason
    THEN <<o[1], o[2], o[3].reason.kind, Range(o[3].reason.missing_resources)>>
    ELSE o

\* C11, first half: two runs given the same attribute text, the same
\* resolved configuration (the statics of one process) and the same dates
\* produce the same outcome: the same error, or equal classifications and
\* the same settings.
C11_SameInputsSameOutcome ==
    \A w, v \in Workers :
        (Finished(w) /\ Finished(v) /\ worker[w].attributes = worker[v].attributes
           /\ DatesOf(w) = DatesOf(v))
        => Outcome(w) = Outcome(v)

\* C11, second half: the window check and the age evaluation of one run
\* use one current date.
C11_OneCurrentDate ==
    \A w \in Workers : (variant = "crate" /\ IsUnit(w)) => worker[w].today = worker[w].now

\* C11: parse followed by decide is a pure function of (attribute text,
\* resolved configuration, current date), the window check and the age
\* evaluation both using that one date.
C11_PureFunction == C11_SameInputsSameOutcome /\ C11_OneCurrentDate

\* C11, what does hold: the same text, statics and clock readings give the
\* same outcome up to the order in which missing resources are listed.
C11_SameOutcomeUpToOrder ==
    \A w, v \in Workers :
        (Finished(w) /\ Finished(v) /\ worker[w].attributes = worker[v].attributes
           /\ DatesOf(w) = DatesOf(v))
        => UpToOrder(Outcome(w)) = UpToOrder(Outcome(v))

Parsed(w) == Called(w) /\ worker[w].result.ok

C12_OtherWitness ==
    \E w \in Workers : Parsed(w) /\ Self(w).kind = "Other" /\ Len(Self(w).resources) = 2

\* an Other whose one resource is the empty string: the collection is not
\* empty, although the list in the attribute was
C12_EmptyItemWitness ==
    \E w \in Workers : Parsed(w) /\ Self(w).kind = "Other" /\ Self(w).resources = << <<>> >>

\* isResourceKnown under the configuration the process resolves
ResourceIsKnown(r) == Deref(KNOWN_RESOURCES) = <<>> \/ ListedIn(Deref(KNOWN_RESOURCES), r)
\* a list of n >= 2 distinct known resources
SeveralKnownResources(l) ==
    /\ Len(TrimmedItems(l)) >= 2
    /\ ~HasDuplicate(l)
    /\ \A i \in 1..Len(TrimmedItems(l)) :
          TrimmedItems(l)[i] # <<>> /\ ResourceIsKnown(TrimmedItems(l)[i])

\* C13: the attribute text is split on the first comma only: for a defined
\* kind and a list of n >= 2 distinct known resources, parsing
\* "<kind>, resources=<r1>, ..., <rn>" yields Other{kind, [r1..rn]} with
\* each item trimmed; commas after the first never cause InvalidFormat.
C13_SplitOnFirstComma ==
    \A w \in Workers : \A l \in ResourceLists :
        (Called(w) /\ worker[w].attributes = OtherAttrFor(s_api, l)
           /\ KindIsDefined(s_api) /\ SeveralKnownResources(l))
        => /\ ~Failed(w, "InvalidFormat")
           /\ Yields(w, Other(s_api, TrimmedItems(l)))

\* C13, crate variant alone: from_str does split on the first comma only.
C13_CrateSplitsOnFirstComma == variant = "crate" => C13_SplitOnFirstComma

C13_CrateWitness ==
    \E w \in Workers :
        /\ variant = "crate" /\ Parsed(w)
        /\ worker[w].attributes = OtherAttrTokens(s_api, s_db \o Sep \o s_cache)
        /\ Self(w) = Other(s_api, <<s_db, s_cache>>)

(***************************************************************************)
(* The calendar: one unit test under one fixed environment, compiled once  *)
(* a day.  Each day's build is a new process (its lazy statics start       *)
(* uninitialized) that parses the attribute and decides; Yesterday keeps   *)
(* the previous day's finished invocation for comparison.                  *)
(***************************************************************************)
Horizon == 7

Today == "w1"
Yesterday == "w2"

AgingThresholds ==
    { <<n_1, n_0>>, <<n_1, n_2>>, <<n_2, n_1>>, <<n_2, n_2>>,
      <<n_1, n_u32max>>, <<n_0, n_1>> }
AgingEnvs ==
    { EnvOf(Unset, SetTo(t[1]), SetTo(t[2]), Unset, Unset, Unset) : t \in AgingThresholds }
    \cup { EnvOf(SetTo(s_Unit), SetTo(t[1]), SetTo(t[2]), Unset, Unset, Unset)
             : t \in { <<n_1, n_2>>, <<n_2, n_1>> } }
AgingDates == { <<2023,10,10>>, <<2023,10,12>> }

AgingInit ==
    /\ variant \in Variants
    /\ \E dt \in AgingDates : attrs = {UnitAttrFor(dt)}
    /\ env \in AgingEnvs
    /\ envHist = <<env>>
    /\ utcDate = DayOf(<<2023,10,10>>)
    /\ localDate = DayOf(<<2023,10,10>>)
    /\ lazy = [n \in Statics |-> Uninit]
    /\ reads = [v \in EnvVars |-> 0]
    /\ events = 0
    /\ worker = [w \in Workers |-> Idle]

\* The day's build is over; the next day's build starts from a new process.
NextDay ==
    /\ worker[Today].pc \in {"done", "error"}
    /\ events < Horizon
    /\ utcDate' = utcDate + 1
    /\ localDate' = localDate + 1
    /\ events' = events + 1
    /\ lazy' = [n \in Statics |-> Uninit]
    /\ reads' = [v \in EnvVars |-> 0]
    /\ worker' = [w \in Workers |-> IF w = Today THEN Idle ELSE worker[Today]]
    /\ UNCHANGED <<variant, attrs, env, envHist>>

AgingNext ==
    \/ \E a \in attrs : FromStr(Today, a)
    \/ \E a \in attrs : FromLitStr(Today, a)
    \/ FromEnvMax(Today)
    \/ FromEnvSkip(Today)
    \/ WhatToDo(Today)
    \/ NextDay

\* Every day's build runs to its end, and the days go by.  The parse step
\* is enabled exactly while the day's invocation is idle and every parse
\* step ends that, so its weak fairness is that the invocation is
\* infinitely often not idle.
AgingSpec ==
    /\ AgingInit /\ [][AgingNext]_vars
    /\ []<>(worker[Today].pc # "idle")
    /\ WF_vars(FromEnvMax(Today)) /\ WF_vars(FromEnvSkip(Today))
    /\ WF_vars(WhatToDo(Today)) /\ WF_vars(NextDay)

\* the fixed configuration
CfgMax == from_env_max(env[UNIT_AGE])
CfgSkip == from_env_skip(env[UNIT_SKIP])
\* maxAgeDays + skipWindowDays as a number, and as the u32 the code holds
CfgSum == BigAdd(CfgMax, CfgSkip)
CfgSilent == IF BigLt(U32Max, CfgSum) THEN U32Max ELSE CfgSum

\* the phase of a decided Unit, from its settings alone: 0 running (Run, or
\* skipped as excluded), 1 skipped with a countdown, 2 ignored
Phase(w) ==
    IF Settings(w) = Ignore THEN 2
    ELSE IF Settings(w) = Run \/ Settings(w) = Skip(UnitExcluded) THEN 0
    ELSE 1
Countdown(w) == Settings(w).reason.skip_left
\* the last day of the calendar
CalendarEnd == utcDate + (Horizon - events)
\* the calendar has a day on which the age reaches `limit`
Reaches(limit) == IsUnit(Today) /\ ~Below(CalendarEnd - Self(Today).updated, limit)
IgnoredToday == IsUnit(Today) /\ Settings(Today) = Ignore

\* never back, and the count falls by one a day
AgingForward ==
    (IsUnit(Today) /\ IsUnit(Yesterday)) =>
        /\ worker[Today].now = worker[Yesterday].now + 1
        /\ Self(Today) = Self(Yesterday)
        /\ Phase(Yesterday) <= Phase(Today)
        /\ Phase(Yesterday) = 2 => Phase(Today) = 2
        /\ (Phase(Yesterday) = 1 /\ Phase(Today) = 1) =>
              BigAdd(Countdown(Today), BigOf(1)) = Countdown(Yesterday)
\* the skipped phase is the days from age = maxAgeDays up to `silent`
\* exclusive, counting down the days left
AgingPhaseUpTo(silent) ==
    IsUnit(Today) =>
        /\ Phase(Today) = 0 <=> Below(AgeOf(Today), CfgMax)
        /\ Phase(Today) = 1 <=> (~Below(AgeOf(Today), CfgMax) /\ Below(AgeOf(Today), silent))
        /\ Phase(Today) = 1 =>
              /\ Settings(Today) = Skip(Aged(Countdown(Today)).reason)
              /\ Countdown(Today) = BigSub(silent, BigOf(AgeOf(Today)))
        /\ Phase(Today) = 2 <=> ~Below(AgeOf(Today), silent)

\* C14 as stated: for a fixed Unit and configuration with maxAgeDays > 0
\* and a date advancing a day at a time, the settings move only forward
\* through running -> Skip("Silenced in k days") -> Ignore, k falls by
\* exactly 1 a day, the skipped phase lasts exactly skipWindowDays days
\* (from age maxAgeDays to maxAgeDays + skipWindowDays), and Ignore is
\* eventually reached.
C14_AgingPhases ==
    /\ [](CfgMax # <<0, 0>> => (AgingForward /\ AgingPhaseUpTo(CfgSum)))
    /\ (CfgMax # <<0, 0>> /\ Reaches(CfgSum)) ~> IgnoredToday

\* C14 as the code has it: the same, with the skipped phase ending at
\* maxAgeDays + skipWindowDays held at the u32 maximum, so that it lasts
\* skipWindowDays days only when the sum does not exceed that maximum.
C14_AgingPhasesSaturating ==
    /\ [](CfgMax # <<0, 0>> => (AgingForward /\ AgingPhaseUpTo(CfgSilent)))
    /\ (CfgMax # <<0, 0>> /\ Reaches(CfgSilent)) ~> IgnoredToday

\* a test that was counting down its last day yesterday is ignored today,
\* max = 2 and skip = 2 days after its update
C14_Witness ==
    /\ CfgMax = BigOf(2) /\ CfgSkip = BigOf(2)
    /\ IsUnit(Yesterday) /\ Phase(Yesterday) = 1 /\ Countdown(Yesterday) = BigOf(1)
    /\ IgnoredToday /\ AgeOf(Today) = 4

\* the sum of the thresholds saturates: on the first skipped day the count
\* is short of skipWindowDays
C14_SaturatedWitness ==
    /\ CfgMax = BigOf(1) /\ CfgSkip = U32Max
    /\ IsUnit(Today) /\ AgeOf(Today) = 1 /\ Phase(Today) = 1
    /\ Countdown(Today) = BigSub(U32Max, BigOf(1))

====
